---- MODULE Spec2Model ----
(***************************************************************************)
(* HackNu (Zamanbank) front end: the api-client (convertCryptoToKZT,       *)
(* getCryptoRatesKZT, createAccount, ...), the financial-analysis screen   *)
(* with its crypto conversion, the wallet screen, and the login and home   *)
(* screens with the session they keep in localStorage, running against the *)
(* ledger back end.  The back end is not part of the sources; its ledger   *)
(* operations are modelled from the specification (sections 4.1 and 4.4).  *)
(*                                                                         *)
(* Units: crypto amounts are integers of 0.01 coin, rates are integers of  *)
(* 0.001 KZT per coin, KZT amounts are integers of 0.01 KZT (tiyn).        *)
(***************************************************************************)
EXTENDS Integers, Sequences, FiniteSets, TLC

\* ------------------------------------------------------------------ bounds
MaxAge == 150            \* the age of the held rates is followed up to here (seconds)
TickStep == 75           \* seconds per clock tick
MaxLoaders == 2          \* concurrent loadAll() calls of the analysis screen
MaxLoads == 1            \* loadAll() calls started by pull-to-refresh
MaxConverts == 1         \* conversions started
MaxWallets == 2          \* instances of the wallet screen (tabs, devices) of the user
MaxWalletLoads == 2      \* loadData() calls started by pull-to-refresh
MaxTxns == 2             \* presses of the wallet's Confirm button
MaxPeerCalls == 1        \* createWithdrawal calls of the user's other client
MaxFormAmount == 2       \* the form's amount is followed up to here (0.01 coin)

\* --------------------------------------------------------- program constants
TTL == 30                \* "Prices via CoinGecko (cached ~30s)"
StaleFactor == 5         \* a quote is usable after a failed refresh below 5 x ttl

Null == "null"
Symbols == {"BTC", "ETH"}
KZT == "KZT"

VARIABLES
  accounts,        \* back end: sequence of account records, index = account id
  txlog,           \* back end: append-only transaction log, index = transaction id
  alive,           \* the client app is running
  mounted,         \* the analysis screen ran its mount effect
  loading,         \* analysis screen: useState(true)
  analysis,        \* analysis screen: analysis !== null
  scrAccounts,     \* analysis screen: accounts state (ids of the loaded accounts)
  ratesKZT,        \* analysis screen: ratesKZT state (function symbol -> rate; empty = null)
  ratesAge,        \* seconds since the rates held in ratesKZT were fetched
  isConverting,    \* analysis screen: isConverting state
  conversionError, \* analysis screen: conversionError state
  loaders,         \* analysis screen: the loadAll() calls in progress
  loadsStarted,    \* number of loadAll() calls started by the user interface
  conv,            \* the convertCryptoToKZT call in progress (or the last one)
  convertsStarted, \* number of conversions started
  wallet,          \* wallet screen, per instance: its state and its loadData() call
  wLoadsStarted,   \* number of loadData() calls started by pull-to-refresh
  txn,             \* wallet screen, per instance: the modal and its handleTransaction() call
  txnsStarted,     \* number of presses of Confirm
  peer,            \* the createWithdrawal call of another client of the user
  peerCalls,       \* number of createWithdrawal calls of the other client
  form,            \* CryptoConvertForm: fromId, toId, amount
  storage,         \* localStorage: what the 'user' entry holds
  route,           \* the router's current route
  user,            \* home and wallet screens: user !== null
  login            \* login screen: its state and the handler in progress

vars == <<accounts, txlog, alive, mounted, loading, analysis, scrAccounts,
          ratesKZT, ratesAge, isConverting, conversionError, loaders, loadsStarted,
          conv, convertsStarted, wallet, wLoadsStarted, txn, txnsStarted,
          peer, peerCalls, form, storage, route, user, login>>

serverVars == <<accounts, txlog>>
screenVars == <<mounted, loading, analysis, scrAccounts, ratesKZT, ratesAge,
                isConverting, conversionError, loaders, loadsStarted, conv,
                convertsStarted, form>>
walletVars == <<wallet, wLoadsStarted, txn, txnsStarted, peer, peerCalls>>
sessionVars == <<storage, route, user, login>>

\* ----------------------------------------------------------- back end (ledger)
Account(type, currency, balance) ==
  [account_type |-> type, currency |-> currency, balance |-> balance, status |-> "active"]

\* The user's accounts before the client starts: none, a KZT wallet only, or
\* two crypto accounts and a KZT wallet.
InitAccounts ==
  { <<>>,
    << Account("checking", KZT, 0) >>,
    << Account("crypto", "BTC", 2), Account("crypto", "ETH", 2), Account("checking", KZT, 0) >> }

AccountIds == DOMAIN accounts

\* Mutant: the balance is not compared with the amount taken.
ApplyDeltaError_NoFundsCheck(id, delta) ==
  IF id \notin AccountIds THEN "Account not found"
  ELSE IF accounts[id].status # "active" THEN "Account not active"
  ELSE Null

\* apply_delta: the reason a signed change of an account's balance is refused, or Null.
ApplyDeltaError(id, delta) ==
  IF id \notin AccountIds THEN "Account not found"
  ELSE IF accounts[id].status # "active" THEN "Account not active"
  ELSE IF accounts[id].balance + delta < 0 THEN "Insufficient funds"
  ELSE Null

\* Mutant: the request is validated, the balance is not consulted.
LedgerError_NoBalanceCheck(req, sign) ==
  IF req.amount <= 0 THEN "Amount must be greater than zero"
  ELSE IF req.account_id \in AccountIds /\ accounts[req.account_id].currency # req.currency
    THEN "Currency mismatch"
  ELSE Null

\* deposit / withdraw validation: amount > 0 and the stated currency is the account's.
LedgerError(req, sign) ==
  IF req.amount <= 0 THEN "Amount must be greater than zero"
  ELSE IF req.account_id \in AccountIds /\ accounts[req.account_id].currency # req.currency
    THEN "Currency mismatch"
  ELSE ApplyDeltaError(req.account_id, sign * req.amount)

\* The linked-transaction id of a request: deposit and withdrawal requests have
\* no such field, their transactions are recorded unlinked (0).
LinkOf(req) == IF "link" \in DOMAIN req THEN req.link ELSE 0

Tx(type, req) ==
  [transaction_type |-> type, account_id |-> req.account_id, amount |-> req.amount,
   currency |-> req.currency, link |-> LinkOf(req)]

\* Mutant: the balance changes by twice the amount logged.
LedgerCommit_DoubleApply(type, req, sign) ==
  /\ accounts' = [accounts EXCEPT ![req.account_id].balance = @ + 2 * sign * req.amount]
  /\ txlog' = Append(txlog, Tx(type, req))

\* The balance change and the log entry are one atomic step of the ledger.
LedgerCommit(type, req, sign) ==
  /\ accounts' = [accounts EXCEPT ![req.account_id].balance = @ + sign * req.amount]
  /\ txlog' = Append(txlog, Tx(type, req))

\* ------------------------------------------------------- api-client: rates
NoRates == [s \in {} |-> 0]

\* The provider's price of a coin, 2.500 KZT in units of 0.001 KZT.
Prices == {2500}

\* What the price provider may answer to a request for syms: an HTTP failure, a
\* price for every symbol, or a body that lacks the price of one symbol.
FailedResponse == [ok |-> FALSE, data |-> NoRates]

ProviderResponses(syms) ==
  {FailedResponse}
  \cup {[ok |-> TRUE, data |-> [s \in syms |-> p]] : p \in Prices}
  \cup {[ok |-> TRUE, data |-> [s \in syms \ {"ETH"} |-> 2500]]}

\* getCryptoRatesKZT after the response arrived: the result, or the error thrown.
GetCryptoRatesKZT(syms, res) ==
  IF ~res.ok THEN [error |-> "Failed to fetch crypto rates", result |-> NoRates]
  ELSE IF \E s \in syms : s \notin DOMAIN res.data
    THEN [error |-> "Rate not available for symbol", result |-> NoRates]
  ELSE [error |-> Null, result |-> [s \in syms |-> res.data[s]]]

\* ---------------------------------------------------- analysis screen: loads
Loaders == 1..MaxLoaders

IdleLoader == [an |-> "idle", ar |-> "idle", syms |-> {}, res |-> FailedResponse]

LoaderFree(l) == loaders[l].an = "idle" /\ loaders[l].ar = "idle"

\* The screen shows the scroll view (pull-to-refresh, the convert form) only when
\* it is not loading and an analysis is present.
Rendered == ~loading /\ analysis

\* CryptoConvertForm's state when it is mounted: nothing selected, amount 0.
NewForm == [fromId |-> 0, toId |-> 0, amount |-> 0]

\* loadAll(): loadAnalysis() sets loading and asks for the analysis;
\* loadAccountsAndRates() asks for the user's accounts.  While loading the
\* screen shows its spinner only: the form is unmounted and loses its state.
StartLoadAll(l) ==
  /\ loaders' = [loaders EXCEPT ![l] = [IdleLoader EXCEPT !.an = "fetching", !.ar = "getAccounts"]]
  /\ loading' = TRUE
  /\ form' = NewForm

CryptoSymbols(ids) ==
  {accounts[i].currency : i \in {j \in ids : accounts[j].account_type = "crypto"}} \cap Symbols

\* ------------------------------------------------- api-client: conversion
NoParams == [fromAccountId |-> 0, fromSymbol |-> Null, amountCrypto |-> 0, toKZTAccountId |-> 0]

IdleConv ==
  [pc |-> "idle", caller |-> "none", params |-> NoParams, rate |-> 0,
   wTx |-> 0, dTx |-> 0, error |-> Null, loader |-> 0]

\* kztAmount = amountCrypto * rateKZTPerCrypto, in units of 0.00001 KZT.
KztAmount(amountCrypto, rate) == amountCrypto * rate

\* Mutant: the hundredths are cut off instead of rounded.
ToFixed2_Truncate(x) == x \div 1000

\* Number(x.toFixed(2)) in tiyn: the nearest hundredth, the larger one on a tie.
ToFixed2(x) == (x + 500) \div 1000

WithdrawalReq(c) ==
  [account_id |-> c.params.fromAccountId, amount |-> c.params.amountCrypto,
   currency |-> c.params.fromSymbol]

DepositReq(c) ==
  [account_id |-> c.params.toKZTAccountId,
   amount |-> ToFixed2(KztAmount(c.params.amountCrypto, c.rate)), currency |-> KZT]

\* The value convertCryptoToKZT returns: the two transactions (their places in
\* the ledger) and kztAmount, the product as computed, in units of 0.00001 KZT.
ConvertResult(c) ==
  [withdrawal |-> c.wTx, deposit |-> c.dTx,
   kztAmount |-> KztAmount(c.params.amountCrypto, c.rate)]

\* The call, finished by a thrown error before or after its requests.
Thrown(c, msg) == [c EXCEPT !.pc = "idle", !.error = msg]

\* Mutant: the amount check is missing.
ConvertCryptoToKZT_NoAmountCheck(caller, p, rate) ==
  [IdleConv EXCEPT !.caller = caller, !.params = p, !.rate = rate, !.pc = "wReq"]

\* Mutant: the deposit request is sent first.
ConvertCryptoToKZT_DepositFirst(caller, p, rate) ==
  LET c == [IdleConv EXCEPT !.caller = caller, !.params = p, !.rate = rate]
  IN IF p.amountCrypto <= 0
       THEN Thrown(c, "Amount must be positive")
       ELSE [c EXCEPT !.pc = "dReq"]

\* convertCryptoToKZT up to its first await: the amount check, then the
\* withdrawal request is sent.
ConvertCryptoToKZT(caller, p, rate) ==
  LET c == [IdleConv EXCEPT !.caller = caller, !.params = p, !.rate = rate]
  IN IF p.amountCrypto <= 0
       THEN Thrown(c, "Amount must be positive")
       ELSE [c EXCEPT !.pc = "wReq"]

\* The ratesKZT?.[symbol] lookup: 0 stands for undefined.
RateOf(sym) == IF sym \in DOMAIN ratesKZT THEN ratesKZT[sym] ELSE 0

\* Mutant: the rate check is missing, the conversion goes on with no rate.
HandleConvertToKZT_NoRateCheck(p) ==
  LET c == ConvertCryptoToKZT("screen", p, RateOf(p.fromSymbol))
  IN /\ conv' = c
     /\ conversionError' = c.error
     /\ isConverting' = (c.pc # "idle")
     /\ convertsStarted' = convertsStarted + 1
     /\ UNCHANGED <<accounts, txlog, alive, mounted, loading, analysis, scrAccounts,
                    ratesKZT, ratesAge, loaders, loadsStarted, walletVars, sessionVars, form>>

\* handleConvertToKZT up to its first await.  A missing rate is thrown and
\* caught at once: the error is shown and isConverting is lowered again.
HandleConvertToKZT(p) ==
  LET rate == RateOf(p.fromSymbol)
      c == IF rate = 0
             THEN Thrown([IdleConv EXCEPT !.caller = "screen", !.params = p], "Rate not available")
             ELSE ConvertCryptoToKZT("screen", p, rate)
  IN /\ conv' = c
     /\ conversionError' = c.error
     /\ isConverting' = (c.pc # "idle")
     /\ convertsStarted' = convertsStarted + 1
     /\ UNCHANGED <<accounts, txlog, alive, mounted, loading, analysis, scrAccounts,
                    ratesKZT, ratesAge, loaders, loadsStarted, walletVars, sessionVars, form>>

\* CryptoConvertForm: the accounts offered and the amounts the +0.01 button reaches.
FormAmounts == {1, 3}

\* Mutant: every account of the screen is offered as the destination.
FormParams_AnyDestination ==
  {[fromAccountId |-> f, fromSymbol |-> accounts[f].currency, amountCrypto |-> a,
    toKZTAccountId |-> t] :
      f \in {i \in scrAccounts : accounts[i].account_type = "crypto"},
      t \in scrAccounts,
      a \in FormAmounts}

FormParams ==
  {[fromAccountId |-> f, fromSymbol |-> accounts[f].currency, amountCrypto |-> a,
    toKZTAccountId |-> t] :
      f \in {i \in scrAccounts : accounts[i].account_type = "crypto"},
      t \in {i \in scrAccounts : accounts[i].currency = KZT},
      a \in FormAmounts}

\* The Convert button: enabled when the form is shown and no conversion runs.
SubmitConvert ==
  /\ alive /\ Rendered /\ ~isConverting
  /\ conv.pc = "idle"
  /\ convertsStarted < MaxConverts
  /\ \E p \in FormParams : HandleConvertToKZT(p)

\* CryptoConvertForm, press by press.  The accounts it offers.
CryptoAccounts == {i \in scrAccounts : accounts[i].account_type = "crypto"}
KztAccounts == {i \in scrAccounts : accounts[i].currency = KZT}

FormStep(next) ==
  /\ alive
  /\ form' = next
  /\ UNCHANGED <<accounts, txlog, alive, mounted, loading, analysis, scrAccounts, ratesKZT,
                 ratesAge, isConverting, conversionError, loaders, loadsStarted, conv,
                 convertsStarted, walletVars, sessionVars>>

\* A source account's button: setFromId(a.id).
SelectFrom ==
  /\ Rendered
  /\ \E a \in CryptoAccounts : FormStep([form EXCEPT !.fromId = a])

\* A destination account's button: setToId(a.id).
SelectTo ==
  /\ Rendered
  /\ \E a \in KztAccounts : FormStep([form EXCEPT !.toId = a])

\* The +0.01 button.
PressPlus ==
  /\ Rendered
  /\ form.amount < MaxFormAmount
  /\ FormStep([form EXCEPT !.amount = @ + 1])

\* Mutant: the amount is lowered without Math.max(0, ...).
PressMinus_NoFloor ==
  /\ Rendered
  /\ FormStep([form EXCEPT !.amount = @ - 1])

\* The -0.01 button: Math.max(0, prev - 0.01).
PressMinus ==
  /\ Rendered
  /\ FormStep([form EXCEPT !.amount = IF @ - 1 > 0 THEN @ - 1 ELSE 0])

\* The form's Convert button, disabled while loading (isConverting) or with
\* no source, no destination or no amount: onSubmit with the selected source
\* account as found among the crypto accounts now offered, or nothing when
\* it is no longer among them.
SubmitForm ==
  /\ alive /\ Rendered
  /\ ~isConverting /\ form.fromId # 0 /\ form.toId # 0 /\ form.amount > 0
  /\ conv.pc = "idle"
  /\ convertsStarted < MaxConverts
  /\ form.fromId \in CryptoAccounts
  /\ HandleConvertToKZT([fromAccountId |-> form.fromId,
                         fromSymbol |-> accounts[form.fromId].currency,
                         amountCrypto |-> form.amount,
                         toKZTAccountId |-> form.toId])

\* convertCryptoToKZT is exported: a caller other than the screen passes its own
\* parameters and rate.
ApiAmounts == {-1, 0, 1}

ApiRates == {2500, 1705}

ApiParams ==
  {[fromAccountId |-> 1, fromSymbol |-> "BTC", amountCrypto |-> a, toKZTAccountId |-> 3] :
      a \in ApiAmounts}

CallConvert ==
  /\ alive
  /\ conv.pc = "idle" /\ ~isConverting
  /\ convertsStarted < MaxConverts
  /\ \E p \in ApiParams, r \in ApiRates : conv' = ConvertCryptoToKZT("api", p, r)
  /\ convertsStarted' = convertsStarted + 1
  /\ UNCHANGED <<accounts, txlog, alive, mounted, loading, analysis, scrAccounts,
                 ratesKZT, ratesAge, isConverting, conversionError, loaders, loadsStarted,
                 walletVars, sessionVars, form>>

\* The back end handles the withdrawal request: commit, or refuse.
ServerWithdrawal ==
  /\ conv.pc = "wReq"
  /\ LET req == WithdrawalReq(conv)
         err == LedgerError(req, -1)
     IN IF err = Null
          THEN /\ LedgerCommit("withdrawal", req, -1)
               /\ conv' = [conv EXCEPT !.pc = "wOk", !.wTx = Len(txlog) + 1]
          ELSE /\ conv' = [conv EXCEPT !.pc = "wErr", !.error = err]
               /\ UNCHANGED serverVars
  /\ UNCHANGED <<alive, mounted, loading, analysis, scrAccounts, ratesKZT, ratesAge,
                 isConverting, conversionError, loaders, loadsStarted, convertsStarted,
                 walletVars, sessionVars, form>>

\* The back end handles the deposit request: commit, or refuse.
ServerDeposit ==
  /\ conv.pc = "dReq"
  /\ LET req == DepositReq(conv)
         err == LedgerError(req, 1)
     IN IF err = Null
          THEN /\ LedgerCommit("deposit", req, 1)
               /\ conv' = [conv EXCEPT !.pc = "dOk", !.dTx = Len(txlog) + 1]
          ELSE /\ conv' = [conv EXCEPT !.pc = "dErr", !.error = err]
               /\ UNCHANGED serverVars
  /\ UNCHANGED <<alive, mounted, loading, analysis, scrAccounts, ratesKZT, ratesAge,
                 isConverting, conversionError, loaders, loadsStarted, convertsStarted,
                 walletVars, sessionVars, form>>

\* fetch() rejects: the request never reaches the back end.
RequestFails ==
  /\ conv.pc \in {"wReq", "dReq"}
  /\ conv' = [conv EXCEPT !.pc = IF conv.pc = "wReq" THEN "wErr" ELSE "dErr",
                          !.error = "Network request failed"]
  /\ UNCHANGED <<accounts, txlog, alive, mounted, loading, analysis, scrAccounts,
                 ratesKZT, ratesAge, isConverting, conversionError, loaders, loadsStarted,
                 convertsStarted, walletVars, sessionVars, form>>

\* The error of a failed leg leaves convertCryptoToKZT; the screen's handler
\* catches it, shows it and lowers isConverting.
ConvertThrows ==
  /\ conv' = [conv EXCEPT !.pc = "idle"]
  /\ IF conv.caller = "screen"
       THEN conversionError' = conv.error /\ isConverting' = FALSE
       ELSE UNCHANGED <<conversionError, isConverting>>
  /\ UNCHANGED <<loaders, loading>>

\* Mutant: the deposit request is sent whatever createWithdrawal returned.
WithdrawalReturns_IgnoreError ==
  /\ alive
  /\ conv.pc \in {"wOk", "wErr"}
  /\ conv' = [conv EXCEPT !.pc = "dReq"]
  /\ UNCHANGED <<conversionError, isConverting, loaders, loading>>
  /\ UNCHANGED <<accounts, txlog, alive, mounted, analysis, scrAccounts, ratesKZT,
                 ratesAge, loadsStarted, convertsStarted, walletVars, sessionVars, form>>

\* createWithdrawal returned: on success the deposit request is sent.
WithdrawalReturns ==
  /\ alive
  /\ conv.pc \in {"wOk", "wErr"}
  /\ IF conv.pc = "wOk"
       THEN /\ conv' = [conv EXCEPT !.pc = "dReq"]
            /\ UNCHANGED <<conversionError, isConverting, loaders, loading>>
       ELSE ConvertThrows
  /\ UNCHANGED <<accounts, txlog, alive, mounted, analysis, scrAccounts, ratesKZT,
                 ratesAge, loadsStarted, convertsStarted, walletVars, sessionVars, form>>

\* createDeposit returned: on success convertCryptoToKZT returns its result and
\* the screen's handler awaits loadAll().
DepositReturns ==
  /\ alive
  /\ conv.pc \in {"dOk", "dErr"}
  /\ IF conv.pc = "dErr" THEN ConvertThrows /\ UNCHANGED form
     ELSE IF conv.caller = "screen"
       THEN \E l \in Loaders :
              /\ LoaderFree(l)
              /\ StartLoadAll(l)
              /\ conv' = [conv EXCEPT !.pc = "reload", !.loader = l]
              /\ UNCHANGED <<conversionError, isConverting>>
       ELSE /\ conv' = [conv EXCEPT !.pc = "idle"]
            /\ UNCHANGED <<conversionError, isConverting, loaders, loading, form>>
  /\ UNCHANGED <<accounts, txlog, alive, mounted, analysis, scrAccounts, ratesKZT,
                 ratesAge, loadsStarted, convertsStarted, walletVars, sessionVars>>

\* The handler's loadAll() finished: success is reported, isConverting lowered.
ReloadReturns ==
  /\ alive
  /\ conv.pc = "reload"
  /\ LoaderFree(conv.loader)
  /\ conv' = [conv EXCEPT !.pc = "idle", !.loader = 0]
  /\ isConverting' = FALSE
  /\ UNCHANGED <<accounts, txlog, alive, mounted, loading, analysis, scrAccounts,
                 ratesKZT, ratesAge, conversionError, loaders, loadsStarted, convertsStarted,
                 walletVars, sessionVars, form>>

\* -------------------------------------------- analysis screen: load actions
\* useEffect on [user, monthsBack]: the first loadAll().
Mount ==
  /\ alive /\ ~mounted
  /\ mounted' = TRUE
  /\ StartLoadAll(1)
  /\ UNCHANGED <<accounts, txlog, alive, analysis, scrAccounts, ratesKZT, ratesAge,
                 isConverting, conversionError, loadsStarted, conv, convertsStarted,
                 walletVars, sessionVars>>

\* Pull-to-refresh: another loadAll(), whatever is still in flight.
OnRefresh ==
  /\ alive /\ mounted /\ Rendered
  /\ loadsStarted < MaxLoads
  /\ \E l \in Loaders : LoaderFree(l) /\ conv.loader # l /\ StartLoadAll(l)
  /\ loadsStarted' = loadsStarted + 1
  /\ UNCHANGED <<accounts, txlog, alive, mounted, analysis, scrAccounts, ratesKZT,
                 ratesAge, isConverting, conversionError, conv, convertsStarted, walletVars,
                 sessionVars>>

\* loadAnalysis after its await: the analysis is stored, or the error is
\* alerted; loading is lowered either way.
AnalysisReturns(l) ==
  /\ alive
  /\ loaders[l].an = "fetching"
  /\ loaders' = [loaders EXCEPT ![l].an = "idle"]
  /\ loading' = FALSE
  /\ \E ok \in BOOLEAN : analysis' = (analysis \/ ok)
  /\ UNCHANGED <<accounts, txlog, alive, mounted, scrAccounts, ratesKZT, ratesAge,
                 isConverting, conversionError, loadsStarted, conv, convertsStarted,
                 walletVars, sessionVars, form>>

\* loadAccountsAndRates after getUserAccounts: the accounts are stored; with
\* crypto accounts the rate request goes out, without them ratesKZT is cleared.
AccountsReturn(l) ==
  /\ alive
  /\ loaders[l].ar = "getAccounts"
  /\ LET syms == CryptoSymbols(AccountIds)
     IN /\ scrAccounts' = AccountIds
        /\ IF syms # {}
             THEN /\ loaders' = [loaders EXCEPT ![l].ar = "fetchRates", ![l].syms = syms]
                  /\ UNCHANGED <<ratesKZT, ratesAge>>
             ELSE /\ loaders' = [loaders EXCEPT ![l].ar = "idle"]
                  /\ ratesKZT' = NoRates
                  /\ ratesAge' = 0
  /\ UNCHANGED <<accounts, txlog, alive, mounted, loading, analysis, isConverting,
                 conversionError, loadsStarted, conv, convertsStarted, walletVars, sessionVars, form>>

\* getUserAccounts failed: the error is logged, nothing is stored.
AccountsFail(l) ==
  /\ alive
  /\ loaders[l].ar = "getAccounts"
  /\ loaders' = [loaders EXCEPT ![l].ar = "idle"]
  /\ UNCHANGED <<accounts, txlog, alive, mounted, loading, analysis, scrAccounts,
                 ratesKZT, ratesAge, isConverting, conversionError, loadsStarted, conv,
                 convertsStarted, walletVars, sessionVars, form>>

\* The price provider answers the outbound request.
ProviderResponds(l) ==
  /\ loaders[l].ar = "fetchRates"
  /\ \E res \in ProviderResponses(loaders[l].syms) :
       loaders' = [loaders EXCEPT ![l].ar = "gotRates", ![l].res = res]
  /\ UNCHANGED <<accounts, txlog, alive, mounted, loading, analysis, scrAccounts,
                 ratesKZT, ratesAge, isConverting, conversionError, loadsStarted, conv,
                 convertsStarted, walletVars, sessionVars, form>>

\* loadAccountsAndRates after getCryptoRatesKZT: the rates are stored, or the
\* error is logged and ratesKZT stays as it was.
RatesReturn(l) ==
  /\ alive
  /\ loaders[l].ar = "gotRates"
  /\ LET r == GetCryptoRatesKZT(loaders[l].syms, loaders[l].res)
     IN IF r.error = Null
          THEN ratesKZT' = r.result /\ ratesAge' = 0
          ELSE UNCHANGED <<ratesKZT, ratesAge>>
  /\ loaders' = [loaders EXCEPT ![l] = [@ EXCEPT !.ar = "idle", !.syms = {}, !.res = FailedResponse]]
  /\ UNCHANGED <<accounts, txlog, alive, mounted, loading, analysis, scrAccounts,
                 isConverting, conversionError, loadsStarted, conv, convertsStarted,
                 walletVars, sessionVars, form>>

\* ------------------------------------------------------------ wallet screen
Wallets == 1..MaxWallets

\* useState: account null (0), transactions [], loading true; no load running.
NewWallet ==
  [mounted |-> FALSE, loading |-> TRUE, account |-> 0, transactions |-> 0,
   pc |-> "idle", accountsData |-> <<>>]

\* The wallet shows its scroll view (pull-to-refresh) only when it is not
\* loading and has an account.
WalletRendered(w) == ~wallet[w].loading /\ wallet[w].account # 0

\* loadData up to its first await: loading is raised, getUserAccounts is sent.
LoadData(w) == [wallet[w] EXCEPT !.loading = TRUE, !.pc = "getAccounts", !.accountsData = <<>>]

\* The ids of the accounts getUserAccounts returns, in the back end's order.
UserAccounts == [i \in 1..Len(accounts) |-> i]

\* Account store, get_or_create(user, type, currency): the id of the user's
\* account of that type and currency, 0 when there is none yet.
MatchingAccount(type, currency) ==
  IF \E i \in AccountIds : accounts[i].account_type = type /\ accounts[i].currency = currency
    THEN CHOOSE i \in AccountIds :
           /\ accounts[i].account_type = type /\ accounts[i].currency = currency
           /\ \A j \in AccountIds :
                (accounts[j].account_type = type /\ accounts[j].currency = currency) => i <= j
    ELSE 0

\* Mutant: every request creates an account.
CreateAccount_Always(type, currency) ==
  [id |-> Len(accounts) + 1, accounts |-> Append(accounts, Account(type, currency, 0))]

\* POST /accounts: the id the request returns, and the store after it.
CreateAccount(type, currency) ==
  LET found == MatchingAccount(type, currency)
  IN IF found # 0
       THEN [id |-> found, accounts |-> accounts]
       ELSE [id |-> Len(accounts) + 1, accounts |-> Append(accounts, Account(type, currency, 0))]

WalletStep(w, next) ==
  /\ wallet' = [wallet EXCEPT ![w] = next]
  /\ UNCHANGED <<txlog, alive, screenVars, txn, txnsStarted, peer, peerCalls, sessionVars>>

\* useEffect on [user]: the first loadData().
WalletMount(w) ==
  /\ ~wallet[w].mounted
  /\ WalletStep(w, [LoadData(w) EXCEPT !.mounted = TRUE])
  /\ UNCHANGED <<accounts, wLoadsStarted>>

\* Pull-to-refresh: loadData() again.  An open modal covers the scroll view.
WalletRefresh(w) ==
  /\ wallet[w].mounted /\ WalletRendered(w) /\ wallet[w].pc = "idle"
  /\ txn[w].modal = Null
  /\ wLoadsStarted < MaxWalletLoads
  /\ wLoadsStarted' = wLoadsStarted + 1
  /\ WalletStep(w, LoadData(w))
  /\ UNCHANGED accounts

\* The back end answers getUserAccounts with the accounts it holds now.
ServerGetAccounts(w) ==
  /\ wallet[w].pc = "getAccounts"
  /\ WalletStep(w, [wallet[w] EXCEPT !.pc = "gotAccounts", !.accountsData = UserAccounts])
  /\ UNCHANGED <<accounts, wLoadsStarted>>

\* Mutant: createAccount is sent whatever getUserAccounts returned.
WalletAccountsReturn_AlwaysCreate(w) ==
  /\ wallet[w].pc = "gotAccounts"
  /\ WalletStep(w, [wallet[w] EXCEPT !.pc = "createAccount"])
  /\ UNCHANGED <<accounts, wLoadsStarted>>

\* loadData after getUserAccounts: with no account createAccount is sent,
\* otherwise getUserTransactions.
WalletAccountsReturn(w) ==
  /\ wallet[w].pc = "gotAccounts"
  /\ WalletStep(w, [wallet[w] EXCEPT
                      !.pc = IF Len(wallet[w].accountsData) = 0 THEN "createAccount"
                             ELSE "getTransactions"])
  /\ UNCHANGED <<accounts, wLoadsStarted>>

\* The back end handles POST /accounts {checking, KZT, balance 0}.
ServerCreateAccount(w) ==
  /\ wallet[w].pc = "createAccount"
  /\ LET r == CreateAccount("checking", KZT)
     IN /\ accounts' = r.accounts
        /\ WalletStep(w, [wallet[w] EXCEPT !.pc = "created", !.accountsData = <<r.id>>])
  /\ UNCHANGED wLoadsStarted

\* loadData after createAccount: accountsData = [newAccount], then
\* getUserTransactions is sent.
WalletCreateReturns(w) ==
  /\ wallet[w].pc = "created"
  /\ WalletStep(w, [wallet[w] EXCEPT !.pc = "getTransactions"])
  /\ UNCHANGED <<accounts, wLoadsStarted>>

\* loadData after getUserTransactions: the first account and the transactions
\* are stored, loading is lowered.
WalletTransactionsReturn(w) ==
  /\ wallet[w].pc = "getTransactions"
  /\ WalletStep(w, [wallet[w] EXCEPT
                      !.pc = "idle", !.loading = FALSE,
                      !.account = IF Len(wallet[w].accountsData) > 0
                                    THEN wallet[w].accountsData[1] ELSE @,
                      !.transactions = Len(txlog), !.accountsData = <<>>])
  /\ UNCHANGED <<accounts, wLoadsStarted>>

\* A request of loadData fails: the error is alerted, loading is lowered,
\* account and transactions stay as they were.
WalletLoadFails(w) ==
  /\ wallet[w].pc \in {"getAccounts", "createAccount", "getTransactions"}
  /\ WalletStep(w, [wallet[w] EXCEPT !.pc = "idle", !.loading = FALSE, !.accountsData = <<>>])
  /\ UNCHANGED <<accounts, wLoadsStarted>>

\* ------------------------------------------- wallet screen: handleTransaction
\* Only KZT currency is supported.
CURRENCY == "KZT"

\* Text typed into a field: a sequence of characters.
Digits == {"0", "1", "2", "3", "4", "5", "6", "7", "8", "9"}

DigitVal(c) ==
  CASE c = "0" -> 0 [] c = "1" -> 1 [] c = "2" -> 2 [] c = "3" -> 3 [] c = "4" -> 4
    [] c = "5" -> 5 [] c = "6" -> 6 [] c = "7" -> 7 [] c = "8" -> 8 [] c = "9" -> 9

\* The longest prefix of t made of digits.
RECURSIVE LeadDigits(_)
LeadDigits(t) ==
  IF t = <<>> \/ Head(t) \notin Digits THEN <<>> ELSE <<Head(t)>> \o LeadDigits(Tail(t))

\* The number written by a sequence of digits.
RECURSIVE ToNat(_)
ToNat(ds) ==
  IF ds = <<>> THEN 0 ELSE ToNat(SubSeq(ds, 1, Len(ds) - 1)) * 10 + DigitVal(ds[Len(ds)])

\* The sign a text starts with, and the text after it.
SignOf(t) == IF t # <<>> /\ Head(t) = "-" THEN -1 ELSE 1

Unsigned(t) == IF t # <<>> /\ Head(t) \in {"-", "+"} THEN Tail(t) ELSE t

\* parseFloat(text): the longest numeric prefix (sign, digits, point, digits),
\* NaN when it has no digit.  The value is in hundredths (tiyn); the texts
\* entered have at most two decimals.
ParseFloat(t) ==
  LET u == Unsigned(t)
      int == LeadDigits(u)
      rest == SubSeq(u, Len(int) + 1, Len(u))
      frac == IF rest # <<>> /\ Head(rest) = "." THEN LeadDigits(Tail(rest)) ELSE <<>>
      hundredths == ToNat(SubSeq(frac \o <<"0", "0">>, 1, 2))
  IN [nan |-> int = <<>> /\ frac = <<>>,
      val |-> SignOf(t) * (ToNat(int) * 100 + hundredths)]

\* parseInt(text): the longest prefix of sign and digits, NaN when it has no digit.
ParseInt(t) ==
  LET int == LeadDigits(Unsigned(t))
  IN [nan |-> int = <<>>, val |-> SignOf(t) * ToNat(int)]

\* The texts entered as amount and as destination account id.
AmountInputs ==
  { <<>>, <<"0">>, <<"-", "5">>, <<"1", "0", "0", "0">>, <<"2", "0", "0", "0">> }

ToAccountInputs == { <<>>, <<"0">>, <<"2">> }

NoInput == [type |-> Null, amount |-> <<>>, toAccountId |-> <<>>]

NoReq == [account_id |-> 0, to_account_id |-> 0, amount |-> 0, currency |-> Null]

\* useState: modalType null, processing false; no handleTransaction() running.
IdleTxn ==
  [modal |-> Null, processing |-> FALSE, pc |-> "idle", input |-> NoInput, req |-> NoReq,
   error |-> Null, tx |-> 0]

\* Mutant: the amount check is missing.
HandleTransaction_NoAmountCheck(w, amount, toAccountId) ==
  LET t == [txn[w] EXCEPT
              !.input = [type |-> txn[w].modal, amount |-> amount, toAccountId |-> toAccountId],
              !.req = NoReq, !.error = Null, !.tx = 0]
      req == [account_id |-> wallet[w].account, to_account_id |-> ParseInt(toAccountId).val,
              amount |-> ParseFloat(amount).val, currency |-> CURRENCY]
  IN [t EXCEPT !.processing = TRUE, !.pc = "req", !.req = req]

\* handleTransaction up to its first await: the amount is parsed and checked,
\* for a transfer the destination id too; then processing is raised and the
\* request of the modal's type is sent for the screen's account in CURRENCY.
\* A refused input is alerted and leaves processing lowered.
HandleTransaction(w, amount, toAccountId) ==
  LET t == [txn[w] EXCEPT
              !.input = [type |-> txn[w].modal, amount |-> amount, toAccountId |-> toAccountId],
              !.req = NoReq, !.error = Null, !.tx = 0]
      amountNum == ParseFloat(amount)
      toAccountIdNum == ParseInt(toAccountId)
      req == [account_id |-> wallet[w].account, to_account_id |-> 0,
              amount |-> amountNum.val, currency |-> CURRENCY]
  IN IF amountNum.nan \/ amountNum.val <= 0 THEN t
     ELSE IF txn[w].modal = "transfer"
       THEN IF toAccountIdNum.nan \/ toAccountIdNum.val <= 0 THEN t
            ELSE [t EXCEPT !.processing = TRUE, !.pc = "req",
                           !.req = [req EXCEPT !.to_account_id = toAccountIdNum.val]]
     ELSE [t EXCEPT !.processing = TRUE, !.pc = "req", !.req = req]

TxnStep(w, next) ==
  /\ txn' = [txn EXCEPT ![w] = next]
  /\ UNCHANGED <<alive, screenVars, wLoadsStarted, peer, peerCalls, sessionVars>>

\* An action button of the rendered screen: openModal(type) shows the modal
\* with an empty form.  The arguments of a call in progress stay with the call.
OpenModal(w, type) ==
  /\ WalletRendered(w) /\ txn[w].modal = Null
  /\ txnsStarted < MaxTxns
  /\ TxnStep(w, [txn[w] EXCEPT !.modal = type,
                               !.input = IF txn[w].pc = "idle" THEN NoInput ELSE @])
  /\ UNCHANGED <<serverVars, wallet, txnsStarted>>

\* The modal's close button (enabled also while processing): closeModal().
CloseModal(w) ==
  /\ txn[w].modal # Null
  /\ TxnStep(w, [txn[w] EXCEPT !.modal = Null,
                               !.input = IF txn[w].pc = "idle" THEN NoInput ELSE @])
  /\ UNCHANGED <<serverVars, wallet, txnsStarted>>

\* Mutant: the Confirm button stays enabled while processing.
ConfirmTransaction_NotDisabled(w) ==
  /\ WalletRendered(w) /\ txn[w].modal # Null
  /\ txnsStarted < MaxTxns
  /\ txnsStarted' = txnsStarted + 1
  /\ \E amount \in AmountInputs,
        toAccountId \in IF txn[w].modal = "transfer" THEN ToAccountInputs ELSE {<<>>} :
       TxnStep(w, HandleTransaction(w, amount, toAccountId))
  /\ UNCHANGED <<serverVars, wallet>>

\* The Confirm button, disabled while processing: handleTransaction() with
\* the texts entered; the destination field exists in the transfer modal only.
ConfirmTransaction(w) ==
  /\ WalletRendered(w) /\ txn[w].modal # Null /\ ~txn[w].processing
  /\ txnsStarted < MaxTxns
  /\ txnsStarted' = txnsStarted + 1
  /\ \E amount \in AmountInputs,
        toAccountId \in IF txn[w].modal = "transfer" THEN ToAccountInputs ELSE {<<>>} :
       TxnStep(w, HandleTransaction(w, amount, toAccountId))
  /\ UNCHANGED <<serverVars, wallet>>

\* The back end handles the deposit or withdrawal request: commit, or refuse.
ServerTransaction(w) ==
  /\ txn[w].pc = "req" /\ txn[w].input.type \in {"deposit", "withdrawal"}
  /\ LET type == txn[w].input.type
         sign == IF type = "deposit" THEN 1 ELSE -1
         err == LedgerError(txn[w].req, sign)
     IN IF err = Null
          THEN /\ LedgerCommit(type, txn[w].req, sign)
               /\ TxnStep(w, [txn[w] EXCEPT !.pc = "ok", !.tx = Len(txlog) + 1])
          ELSE /\ TxnStep(w, [txn[w] EXCEPT !.pc = "err", !.error = err])
               /\ UNCHANGED serverVars
  /\ UNCHANGED <<wallet, txnsStarted>>

\* transfer validation: amount > 0, both accounts exist, are active and have
\* the stated currency; then the source must hold the amount.
TransferError(req) ==
  IF req.amount <= 0 THEN "Amount must be greater than zero"
  ELSE IF req.account_id \notin AccountIds \/ req.to_account_id \notin AccountIds
    THEN "Account not found"
  ELSE IF accounts[req.account_id].status # "active"
          \/ accounts[req.to_account_id].status # "active"
    THEN "Account not active"
  ELSE IF accounts[req.account_id].currency # req.currency
          \/ accounts[req.to_account_id].currency # req.currency
    THEN "Currency mismatch"
  ELSE ApplyDeltaError(req.account_id, -req.amount)

\* A leg of a transfer: the request of one account, carrying the transfer's link id.
LinkedLeg(req, account, link) ==
  [account_id |-> account, amount |-> req.amount, currency |-> req.currency, link |-> link]

\* The back end handles the transfer request: validation and the debit of the
\* source, linked by the id of the debit transaction.
ServerTransferDebit(w) ==
  /\ txn[w].pc = "req" /\ txn[w].input.type = "transfer"
  /\ LET req == txn[w].req
         err == TransferError(req)
     IN IF err = Null
          THEN /\ LedgerCommit("withdrawal", LinkedLeg(req, req.account_id, Len(txlog) + 1), -1)
               /\ TxnStep(w, [txn[w] EXCEPT !.pc = "debited", !.tx = Len(txlog) + 1])
          ELSE /\ TxnStep(w, [txn[w] EXCEPT !.pc = "err", !.error = err])
               /\ UNCHANGED serverVars
  /\ UNCHANGED <<wallet, txnsStarted>>

\* The credit of the destination after the debit: commit, or fail.
ServerTransferCredit(w) ==
  /\ txn[w].pc = "debited"
  /\ LET req == txn[w].req
         err == ApplyDeltaError(req.to_account_id, req.amount)
     IN IF err = Null
          THEN /\ LedgerCommit("deposit", LinkedLeg(req, req.to_account_id, txn[w].tx), 1)
               /\ TxnStep(w, [txn[w] EXCEPT !.pc = "ok"])
          ELSE /\ TxnStep(w, [txn[w] EXCEPT !.pc = "creditFailed", !.error = err])
               /\ UNCHANGED serverVars
  /\ UNCHANGED <<wallet, txnsStarted>>

\* Mutant: the failed transfer is reported with no reversal.
ServerTransferReverse_NoReversal(w) ==
  /\ txn[w].pc = "creditFailed"
  /\ TxnStep(w, [txn[w] EXCEPT !.pc = "err", !.error = "Transfer failed"])
  /\ UNCHANGED <<serverVars, wallet, txnsStarted>>

\* The compensating reversal after a failed credit: the amount is deposited
\* back to the source under the transfer's link id, then the failure is reported.
ServerTransferReverse(w) ==
  /\ txn[w].pc = "creditFailed"
  /\ LedgerCommit("deposit", LinkedLeg(txn[w].req, txn[w].req.account_id, txn[w].tx), 1)
  /\ TxnStep(w, [txn[w] EXCEPT !.pc = "err", !.error = "Transfer failed"])
  /\ UNCHANGED <<wallet, txnsStarted>>

\* fetch() rejects: the request never reaches the back end.
TransactionRequestFails(w) ==
  /\ txn[w].pc = "req"
  /\ TxnStep(w, [txn[w] EXCEPT !.pc = "err", !.error = "Network request failed"])
  /\ UNCHANGED <<serverVars, wallet, txnsStarted>>

\* The request returned.  On success the modal is closed and loadData() is
\* awaited (taken up when no other load of the instance runs); an error is
\* alerted and processing is lowered.
TransactionReturns(w) ==
  /\ txn[w].pc \in {"ok", "err"}
  /\ IF txn[w].pc = "err"
       THEN /\ TxnStep(w, [txn[w] EXCEPT !.pc = "idle", !.processing = FALSE,
                                         !.req = NoReq, !.error = Null, !.tx = 0])
            /\ UNCHANGED wallet
       ELSE /\ wallet[w].pc = "idle"
            /\ wallet' = [wallet EXCEPT ![w] = LoadData(w)]
            /\ TxnStep(w, [txn[w] EXCEPT !.pc = "reload", !.modal = Null, !.input = NoInput,
                                         !.req = NoReq, !.tx = 0])
  /\ UNCHANGED <<serverVars, txnsStarted>>

\* The handler's loadData() finished: success is alerted, processing lowered.
TransactionReloadReturns(w) ==
  /\ txn[w].pc = "reload" /\ wallet[w].pc = "idle"
  /\ TxnStep(w, [txn[w] EXCEPT !.pc = "idle", !.processing = FALSE])
  /\ UNCHANGED <<serverVars, wallet, txnsStarted>>

\* Another client of the user (another device) calls createWithdrawal for the
\* user's first account; only its request is followed.
IdlePeer == [pc |-> "idle", req |-> NoReq, error |-> Null, tx |-> 0]

PeerAmounts == {100000}

PeerWithdraws ==
  /\ peer.pc = "idle" /\ peerCalls < MaxPeerCalls
  /\ Len(accounts) > 0
  /\ peerCalls' = peerCalls + 1
  /\ \E a \in PeerAmounts :
       peer' = [IdlePeer EXCEPT !.pc = "req",
                                !.req = [NoReq EXCEPT !.account_id = 1, !.amount = a,
                                                      !.currency = accounts[1].currency]]
  /\ UNCHANGED <<serverVars, alive, screenVars, wallet, wLoadsStarted, txn, txnsStarted, sessionVars>>

\* The back end handles the other client's withdrawal request: commit, or refuse.
ServerPeerWithdrawal ==
  /\ peer.pc = "req"
  /\ LET err == LedgerError(peer.req, -1)
     IN IF err = Null
          THEN /\ LedgerCommit("withdrawal", peer.req, -1)
               /\ peer' = [peer EXCEPT !.pc = "ok", !.tx = Len(txlog) + 1]
          ELSE /\ peer' = [peer EXCEPT !.pc = "err", !.error = err]
               /\ UNCHANGED serverVars
  /\ UNCHANGED <<alive, screenVars, wallet, wLoadsStarted, txn, txnsStarted, peerCalls, sessionVars>>

\* createWithdrawal returned to the other client: the transaction, or the
\* error thrown.
PeerReturns ==
  /\ peer.pc \in {"ok", "err"}
  /\ peer' = IdlePeer
  /\ UNCHANGED <<serverVars, alive, screenVars, wallet, wLoadsStarted, txn, txnsStarted,
                 peerCalls, sessionVars>>

\* The user's savings account is closed.
CloseAccount ==
  /\ \E i \in AccountIds :
       /\ accounts[i].account_type = "savings" /\ accounts[i].status = "active"
       /\ accounts' = [accounts EXCEPT ![i].status = "closed"]
  /\ UNCHANGED <<txlog, alive, screenVars, walletVars, sessionVars>>

\* ------------------------------------------------- session: home and wallet
\* localStorage as the screens find it: there is none (typeof localStorage is
\* 'undefined'), the 'user' entry is missing, is not JSON, is JSON without a
\* truthy id, or is a user with an id.
StorageStates == {"undefined", "missing", "unparsable", "noId", "user"}

HOME == "/(tabs)"
LOGIN == "/login"
TRANSACTIONS == "/transactions"
ANALYSIS == "/financial-analysis"

\* The screens that run loadUser on mount.
UserScreens == {HOME, TRANSACTIONS}

\* A screen's user state before loadUser ran (null) and after it found a user.
NoUserYet == [loaded |-> FALSE, set |-> FALSE]
SignedInUser == [loaded |-> TRUE, set |-> TRUE]

\* loadUser: with a localStorage, the entry's user is set when it parses and
\* has an id, otherwise the router is sent to /login; without a localStorage
\* neither happens.
LoadUser(st) ==
  IF st = "undefined" THEN [set |-> FALSE, redirect |-> FALSE]
  ELSE IF st = "user" THEN [set |-> TRUE, redirect |-> FALSE]
  ELSE [set |-> FALSE, redirect |-> TRUE]

\* router.replace(to): the screens left behind are unmounted, the one
\* entered starts from its initial state.
Replace(to) ==
  /\ route' = to
  /\ user' = [s \in UserScreens |-> NoUserYet]

\* The mount effect of the home or wallet screen: loadUser().
ScreenLoadsUser(scr) ==
  /\ route = scr /\ ~user[scr].loaded
  /\ LET r == LoadUser(storage)
     IN IF r.redirect
          THEN Replace(LOGIN)
          ELSE /\ user' = [user EXCEPT ![scr] = [loaded |-> TRUE, set |-> r.set]]
               /\ UNCHANGED route
  /\ UNCHANGED <<serverVars, alive, screenVars, walletVars, storage, login>>

\* The home screen's link to the wallet.
OpenTransactions ==
  /\ route = HOME
  /\ route' = TRANSACTIONS
  /\ UNCHANGED <<serverVars, alive, screenVars, walletVars, storage, user, login>>

\* handleLogout, confirmed: the entry is removed where there is a
\* localStorage, the router is sent to /login.  The button is shown only
\* with a user.
HandleLogout ==
  /\ route = HOME /\ user[HOME].set
  /\ storage' = IF storage = "undefined" THEN storage ELSE "missing"
  /\ Replace(LOGIN)
  /\ UNCHANGED <<serverVars, alive, screenVars, walletVars, login>>

\* ------------------------------------------------------------- login screen
\* User data in a response: absent (null), or an object with id, with
\* user_id only (0 stands for undefined).
NoUserData == [present |-> FALSE, id |-> 0, user_id |-> 0]
UserBodies ==
  { [present |-> TRUE, id |-> 1, user_id |-> 0],
    [present |-> TRUE, id |-> 0, user_id |-> 1],
    NoUserData }

NoResult == [success |-> FALSE, verified |-> FALSE, user |-> NoUserData]

\* What verifyFaceID resolves to: verified with a user, success without a
\* match, verified without a user, an error.
VerifyResults ==
  {[success |-> TRUE, verified |-> TRUE, user |-> u] : u \in UserBodies}
    \cup {[success |-> TRUE, verified |-> FALSE, user |-> NoUserData], NoResult}

\* What loginUser and registerUser resolve to: the body of the response.
UserResults == {[success |-> TRUE, verified |-> TRUE, user |-> u] : u \in UserBodies}

NewLogin ==
  [mode |-> "login", isLoading |-> FALSE, capturedPhoto |-> FALSE, pc |-> "idle",
   handler |-> Null, result |-> NoResult, alert |-> Null]

\* saveUserSession: nothing without user data; the id is id || user_id; the
\* entry is written where there is a localStorage.
SaveUserSession(st, userData) ==
  IF ~userData.present THEN st
  ELSE IF st = "undefined" THEN st
  ELSE IF userData.id # 0 \/ userData.user_id # 0 THEN "user"
  ELSE "noId"

\* The handler rejects its input, or catches an error: an alert, and the
\* call is over with isLoading lowered.
Alerted(l, msg) == [l EXCEPT !.pc = "idle", !.handler = Null, !.isLoading = FALSE, !.alert = msg]

\* A handler up to its first await: isLoading is raised and the request (of
\* the photo, or of loginUser) is sent.
Started(l, handler, pc) ==
  [l EXCEPT !.isLoading = TRUE, !.handler = handler, !.pc = pc, !.alert = Null,
            !.result = NoResult]

\* Mutant: the isLoading check is missing.
HandleFaceVerify_NoLoadingCheck(l) ==
  IF ~l.capturedPhoto THEN [l EXCEPT !.alert = "Please capture a photo first"]
  ELSE Started(l, "verify", "photo")

\* handleFaceVerify up to its first await.
HandleFaceVerify(l) ==
  IF ~l.capturedPhoto THEN [l EXCEPT !.alert = "Please capture a photo first"]
  ELSE IF l.isLoading THEN [l EXCEPT !.alert = "Verification already in progress, skipping..."]
  ELSE Started(l, "verify", "photo")

\* What the login form holds when Login is pressed.
Credentials == {"empty", "invalidEmail", "valid"}

\* handleEmailPasswordLogin up to its first await.
HandleEmailPasswordLogin(l, fields) ==
  IF fields = "empty" THEN [l EXCEPT !.alert = "Please enter both email and password"]
  ELSE IF fields = "invalidEmail" THEN [l EXCEPT !.alert = "Please enter a valid email address"]
  ELSE Started(l, "login", "call")

\* What the registration form holds when Create Account is pressed.
Registrations == {"missing", "invalidEmail", "shortPassword", "valid"}

\* handleRegister up to its first await.
HandleRegister(l, fields) ==
  IF fields = "missing" THEN [l EXCEPT !.alert = "Please fill in all fields"]
  ELSE IF fields = "invalidEmail" THEN [l EXCEPT !.alert = "Please enter a valid email address"]
  ELSE IF fields = "shortPassword" THEN [l EXCEPT !.alert = "Password must be at least 8 characters"]
  ELSE IF ~l.capturedPhoto THEN [l EXCEPT !.alert = "Please capture your face"]
  ELSE Started(l, "register", "photo")

LoginStep(next) ==
  /\ login' = next
  /\ UNCHANGED <<serverVars, alive, screenVars, walletVars, storage, route, user>>

\* The camera modal's onCapture: handlePhotoCapture (the buttons that open
\* the camera are disabled while isLoading).
HandlePhotoCapture ==
  /\ route = LOGIN /\ ~login.isLoading /\ ~login.capturedPhoto
  /\ LoginStep([login EXCEPT !.capturedPhoto = TRUE])

\* switchMode (disabled while isLoading): the other mode, the form reset.
SwitchMode ==
  /\ route = LOGIN /\ ~login.isLoading
  /\ LoginStep([login EXCEPT !.mode = IF @ = "login" THEN "register" ELSE "login",
                             !.capturedPhoto = FALSE])

\* handleFaceVerify is invoked.  Its button is shown in login mode with a
\* photo; the handler makes its own isLoading check, so an invocation is
\* followed also while one is in progress.
FaceVerifyInvoked ==
  /\ route = LOGIN /\ login.mode = "login" /\ login.capturedPhoto
  /\ LoginStep(HandleFaceVerify(login))

\* The Login button (disabled while isLoading).
PressLogin ==
  /\ route = LOGIN /\ login.mode = "login" /\ ~login.isLoading
  /\ \E fields \in Credentials : LoginStep(HandleEmailPasswordLogin(login, fields))

\* The Create Account button (disabled while isLoading).
PressRegister ==
  /\ route = LOGIN /\ login.mode = "register" /\ ~login.isLoading
  /\ \E fields \in Registrations : LoginStep(HandleRegister(login, fields))

\* fetch(capturedPhoto) and blob(): the photo is there and the request with
\* it is sent, or the response is not ok or the blob is empty and the error
\* is caught.
PhotoLoads ==
  /\ route = LOGIN /\ login.pc = "photo"
  /\ \/ LoginStep([login EXCEPT !.pc = "call"])
     \/ LoginStep(Alerted(login, "Failed to load photo"))

\* The back end answers verifyFaceID, loginUser or registerUser.
ServerAuthenticates ==
  /\ route = LOGIN /\ login.pc = "call"
  /\ \E res \in IF login.handler = "verify" THEN VerifyResults ELSE UserResults :
       LoginStep([login EXCEPT !.pc = "answered", !.result = res])

\* The request fails (no connection, or a response that is not ok): the api
\* function throws and the handler catches.
AuthRequestFails ==
  /\ route = LOGIN /\ login.pc = "call"
  /\ LoginStep(Alerted(login, "Request failed"))

\* The handler's success test: verifyFaceID's result must say success and
\* verified and carry a user; loginUser and registerUser succeeded by returning.
AuthSucceeded(l) ==
  /\ l.pc = "answered"
  /\ l.handler = "verify" => (l.result.success /\ l.result.verified /\ l.result.user.present)

\* Mutant: a failed verification is not alerted and isLoading stays raised.
AuthReturns_NoFinally ==
  /\ route = LOGIN /\ login.pc = "answered"
  /\ IF AuthSucceeded(login)
       THEN /\ storage' = SaveUserSession(storage, login.result.user)
            /\ Replace(HOME)
            /\ login' = NewLogin
       ELSE /\ login' = [login EXCEPT !.pc = "idle", !.handler = Null]
            /\ UNCHANGED <<storage, route, user>>
  /\ UNCHANGED <<serverVars, alive, screenVars, walletVars>>

\* The handler after its request returned: on success the session is
\* saved and the router is sent to /(tabs) (the login screen is unmounted);
\* otherwise the failure is alerted.  isLoading is lowered either way.
AuthReturns ==
  /\ route = LOGIN /\ login.pc = "answered"
  /\ IF AuthSucceeded(login)
       THEN /\ storage' = SaveUserSession(storage, login.result.user)
            /\ Replace(HOME)
            /\ login' = NewLogin
       ELSE /\ login' = Alerted(login, IF login.result.success THEN "Face not recognized"
                                       ELSE "Verification failed")
            /\ UNCHANGED <<storage, route, user>>
  /\ UNCHANGED <<serverVars, alive, screenVars, walletVars>>

\* ------------------------------------------------------------- environment
\* Time passes: the rates held by the screen grow older.
Tick ==
  /\ ratesKZT # NoRates
  /\ ratesAge + TickStep <= MaxAge
  /\ ratesAge' = ratesAge + TickStep
  /\ UNCHANGED <<accounts, txlog, alive, mounted, loading, analysis, scrAccounts, ratesKZT,
                 isConverting, conversionError, loaders, loadsStarted, conv,
                 convertsStarted, walletVars, sessionVars, form>>

\* The app stops (closed, killed, reloaded): no client code runs any more;
\* requests already sent are still handled by the back end.
ClientStops ==
  /\ alive
  /\ alive' = FALSE
  /\ UNCHANGED <<accounts, txlog, screenVars, walletVars, sessionVars>>

\* The client's state after construction.
ClientInit ==
  /\ alive = TRUE
  /\ mounted = FALSE
  /\ loading = TRUE
  /\ analysis = FALSE
  /\ scrAccounts = {}
  /\ ratesKZT = NoRates
  /\ ratesAge = 0
  /\ isConverting = FALSE
  /\ conversionError = Null
  /\ loaders = [l \in Loaders |-> IdleLoader]
  /\ loadsStarted = 0
  /\ conv = IdleConv
  /\ convertsStarted = 0
  /\ wallet = [w \in Wallets |-> NewWallet]
  /\ wLoadsStarted = 0
  /\ txn = [w \in Wallets |-> IdleTxn]
  /\ txnsStarted = 0
  /\ peer = IdlePeer
  /\ peerCalls = 0
  /\ form = NewForm
  /\ login = NewLogin

\* A user who signed in on the web is on the screen at route r.
SignedIn(r) ==
  /\ storage = "user"
  /\ route = r
  /\ user = [s \in UserScreens |-> SignedInUser]

Init ==
  /\ accounts \in InitAccounts
  /\ txlog = <<>>
  /\ ClientInit
  /\ SignedIn(ANALYSIS)

Next ==
  \/ Mount
  \/ OnRefresh
  \/ \E l \in Loaders : AnalysisReturns(l)
  \/ \E l \in Loaders : AccountsReturn(l)
  \/ \E l \in Loaders : AccountsFail(l)
  \/ \E l \in Loaders : ProviderResponds(l)
  \/ \E l \in Loaders : RatesReturn(l)
  \/ SubmitConvert
  \/ CallConvert
  \/ ServerWithdrawal
  \/ ServerDeposit
  \/ RequestFails
  \/ WithdrawalReturns
  \/ DepositReturns
  \/ ReloadReturns
  \/ Tick
  \/ ClientStops

Spec == Init /\ [][Next]_vars

\* The wallet screen against the back end.
WalletNext ==
  \/ \E w \in Wallets : WalletMount(w)
  \/ \E w \in Wallets : WalletRefresh(w)
  \/ \E w \in Wallets : ServerGetAccounts(w)
  \/ \E w \in Wallets : WalletAccountsReturn(w)
  \/ \E w \in Wallets : ServerCreateAccount(w)
  \/ \E w \in Wallets : WalletCreateReturns(w)
  \/ \E w \in Wallets : WalletTransactionsReturn(w)
  \/ \E w \in Wallets : WalletLoadFails(w)

WalletInit ==
  /\ accounts \in InitAccounts
  /\ txlog = <<>>
  /\ ClientInit
  /\ SignedIn(TRANSACTIONS)

WalletSpec == WalletInit /\ [][WalletNext]_vars

\* The user's accounts and the log that produced their balances before the
\* wallet starts: none; a KZT wallet holding 1500.00 and a KZT savings account;
\* a crypto account opened before the KZT wallet.
WalletScenarios ==
  { [accounts |-> <<>>, txlog |-> <<>>],
    [accounts |-> << Account("checking", KZT, 150000), Account("savings", KZT, 0) >>,
     txlog |-> << Tx("deposit", [account_id |-> 1, amount |-> 150000, currency |-> KZT]) >>],
    [accounts |-> << Account("crypto", "BTC", 2), Account("checking", KZT, 0) >>,
     txlog |-> << Tx("deposit", [account_id |-> 1, amount |-> 2, currency |-> "BTC"]) >>] }

TransactionsInit ==
  /\ \E s \in WalletScenarios : accounts = s.accounts /\ txlog = s.txlog
  /\ ClientInit
  /\ SignedIn(TRANSACTIONS)

\* The wallet instance in the foreground; the user's other clients are
\* followed by their requests only.
Foreground == 1

\* The wallet screen with its transactions against the back end.
TransactionsNext ==
  \/ WalletMount(Foreground)
  \/ WalletRefresh(Foreground)
  \/ ServerGetAccounts(Foreground)
  \/ WalletAccountsReturn(Foreground)
  \/ ServerCreateAccount(Foreground)
  \/ WalletCreateReturns(Foreground)
  \/ WalletTransactionsReturn(Foreground)
  \/ WalletLoadFails(Foreground)
  \/ \E type \in {"deposit", "withdrawal", "transfer"} : OpenModal(Foreground, type)
  \/ CloseModal(Foreground)
  \/ ConfirmTransaction(Foreground)
  \/ ServerTransaction(Foreground)
  \/ ServerTransferDebit(Foreground)
  \/ ServerTransferCredit(Foreground)
  \/ ServerTransferReverse(Foreground)
  \/ TransactionRequestFails(Foreground)
  \/ TransactionReturns(Foreground)
  \/ TransactionReloadReturns(Foreground)
  \/ PeerWithdraws
  \/ ServerPeerWithdrawal
  \/ PeerReturns
  \/ CloseAccount

TransactionsSpec == TransactionsInit /\ [][TransactionsNext]_vars

\* The app opened at the home, wallet or login route, on a platform with or
\* without a localStorage, whatever an earlier run left in it.
SessionInit ==
  /\ accounts = <<>>
  /\ txlog = <<>>
  /\ ClientInit
  /\ storage \in StorageStates
  /\ route \in {HOME, TRANSACTIONS, LOGIN}
  /\ user = [s \in UserScreens |-> NoUserYet]

SessionNext ==
  \/ \E scr \in UserScreens : ScreenLoadsUser(scr)
  \/ OpenTransactions
  \/ HandleLogout
  \/ HandlePhotoCapture
  \/ SwitchMode
  \/ FaceVerifyInvoked
  \/ PressLogin
  \/ PressRegister
  \/ PhotoLoads
  \/ ServerAuthenticates
  \/ AuthRequestFails
  \/ AuthReturns

SessionSpec == SessionInit /\ [][SessionNext]_vars

\* The analysis screen with its conversion form followed press by press, from
\* its mount through the conversions submitted and the reload after each.
FormNext ==
  \/ Mount
  \/ \E l \in Loaders : AnalysisReturns(l)
  \/ \E l \in Loaders : AccountsReturn(l)
  \/ \E l \in Loaders : AccountsFail(l)
  \/ \E l \in Loaders : ProviderResponds(l)
  \/ \E l \in Loaders : RatesReturn(l)
  \/ SelectFrom
  \/ SelectTo
  \/ PressPlus
  \/ PressMinus
  \/ SubmitForm
  \/ ServerWithdrawal
  \/ ServerDeposit
  \/ RequestFails
  \/ WithdrawalReturns
  \/ DepositReturns
  \/ ReloadReturns

FormSpec == Init /\ [][FormNext]_vars

\* The app with one of its screens in front: the analysis screen and its
\* conversions, the wallet and its transactions once its user is loaded, or
\* the login and home screens.
AppInit == Init \/ TransactionsInit \/ SessionInit

AppNext ==
  \/ /\ route = ANALYSIS
     /\ \/ Mount
        \/ \E l \in Loaders : AnalysisReturns(l)
        \/ \E l \in Loaders : AccountsReturn(l)
        \/ \E l \in Loaders : AccountsFail(l)
        \/ \E l \in Loaders : ProviderResponds(l)
        \/ \E l \in Loaders : RatesReturn(l)
        \/ SubmitConvert
        \/ ServerWithdrawal
        \/ ServerDeposit
        \/ RequestFails
        \/ WithdrawalReturns
        \/ DepositReturns
        \/ ReloadReturns
        \/ ClientStops
  \/ /\ route = TRANSACTIONS /\ user[TRANSACTIONS].set
     /\ \/ WalletMount(Foreground)
        \/ ServerGetAccounts(Foreground)
        \/ WalletAccountsReturn(Foreground)
        \/ ServerCreateAccount(Foreground)
        \/ WalletCreateReturns(Foreground)
        \/ WalletTransactionsReturn(Foreground)
        \/ WalletLoadFails(Foreground)
        \/ \E type \in {"deposit", "withdrawal", "transfer"} : OpenModal(Foreground, type)
        \/ CloseModal(Foreground)
        \/ ConfirmTransaction(Foreground)
        \/ ServerTransaction(Foreground)
        \/ ServerTransferDebit(Foreground)
        \/ ServerTransferCredit(Foreground)
        \/ ServerTransferReverse(Foreground)
        \/ TransactionRequestFails(Foreground)
        \/ TransactionReturns(Foreground)
        \/ TransactionReloadReturns(Foreground)
        \/ CloseAccount
  \/ SessionNext

AppSpec == AppInit /\ [][AppNext]_vars

\* Every request is answered or fails, and every awaited call resumes; the
\* user's presses, failures and the app stopping are not forced.
AppFairSpec ==
  /\ AppSpec
  /\ WF_vars(ServerWithdrawal) /\ WF_vars(ServerDeposit)
  /\ WF_vars(WithdrawalReturns) /\ WF_vars(DepositReturns) /\ WF_vars(ReloadReturns)
  /\ \A l \in Loaders :
       /\ WF_vars(AnalysisReturns(l)) /\ WF_vars(AccountsReturn(l))
       /\ WF_vars(ProviderResponds(l)) /\ WF_vars(RatesReturn(l))
  /\ WF_vars(ServerGetAccounts(Foreground)) /\ WF_vars(WalletAccountsReturn(Foreground))
  /\ WF_vars(ServerCreateAccount(Foreground)) /\ WF_vars(WalletCreateReturns(Foreground))
  /\ WF_vars(WalletTransactionsReturn(Foreground))
  /\ WF_vars(ServerTransaction(Foreground)) /\ WF_vars(ServerTransferDebit(Foreground))
  /\ WF_vars(ServerTransferCredit(Foreground)) /\ WF_vars(ServerTransferReverse(Foreground))
  /\ WF_vars(TransactionReturns(Foreground)) /\ WF_vars(TransactionReloadReturns(Foreground))
  /\ WF_vars(PhotoLoads) /\ WF_vars(ServerAuthenticates) /\ WF_vars(AuthReturns)

\* Requests are handled and awaited calls resume as long as the app runs; the
\* user's presses, the clock, failures and the app stopping are not forced.
FairSpec ==
  /\ Spec
  /\ WF_vars(ServerWithdrawal) /\ WF_vars(ServerDeposit)
  /\ WF_vars(WithdrawalReturns) /\ WF_vars(DepositReturns) /\ WF_vars(ReloadReturns)
  /\ \A l \in Loaders :
       /\ WF_vars(AnalysisReturns(l)) /\ WF_vars(AccountsReturn(l))
       /\ WF_vars(ProviderResponds(l)) /\ WF_vars(RatesReturn(l))

\* ------------------------------------------------------------------ claims
\* The legs of the conversion held in conv, as the back end committed them.
DebitCommitted == conv.wTx # 0

CreditCommitted == conv.dTx # 0

\* A deposit after the withdrawal that gives amountCrypto back to the source account.
ReversalCommitted ==
  \E i \in (conv.wTx + 1)..Len(txlog) :
    /\ txlog[i].transaction_type = "deposit"
    /\ txlog[i].account_id = conv.params.fromAccountId
    /\ txlog[i].amount = conv.params.amountCrypto

\* convertCryptoToKZT has returned to its caller (a result or an error).
ConvertReturned == conv.pc \in {"idle", "reload"}

\* C1: when convertCryptoToKZT has returned, a committed withdrawal is matched
\* by a committed deposit or by a committed reversal to the source account.
C1_NoHalfCommittedReturn ==
  (ConvertReturned /\ DebitCommitted) => (CreditCommitted \/ ReversalCommitted)

\* C2: a conversion the client abandoned after its withdrawal was committed
\* eventually has its deposit or a reversal committed.
C2_AbandonedConvertTerminates ==
  (~alive /\ DebitCommitted /\ ~ConvertReturned) ~> (CreditCommitted \/ ReversalCommitted)

\* The account id a wallet instance has observed: the head of the list its
\* running load holds, else its account state (0 = none yet).
Observed(w) ==
  IF Len(wallet[w].accountsData) > 0 THEN wallet[w].accountsData[1] ELSE wallet[w].account

\* C3: concurrent first loads of the wallet create one account and observe the
\* same account id: the user never has two checking KZT accounts, while a
\* createAccount request is sent or answered the store holds at most one
\* account, and all instances that observed an account observed the same id.
C3_OneAccountSameId ==
  /\ Cardinality({i \in AccountIds :
                    accounts[i].account_type = "checking" /\ accounts[i].currency = KZT}) <= 1
  /\ (\E w \in Wallets : wallet[w].pc \in {"createAccount", "created"}) => Len(accounts) <= 1
  /\ \A w1, w2 \in Wallets :
       (Observed(w1) # 0 /\ Observed(w2) # 0) => Observed(w1) = Observed(w2)

\* C3 witness: two instances raced, both createAccount calls were answered.
C3_BothCreated ==
  \E w1, w2 \in Wallets :
    /\ w1 # w2
    /\ wallet[w1].pc = "created" /\ wallet[w2].pc = "created"

\* C4: the screen sends the withdrawal of a conversion only with a rate
\* younger than the ttl.
C4_FreshQuoteAtWithdrawal ==
  [][(conv.pc # "wReq" /\ conv'.pc = "wReq" /\ conv'.caller = "screen") => ratesAge < TTL]_vars

\* C5: at most one outbound rate request per symbol is in flight.
C5_SingleOutboundFetch ==
  \A s \in Symbols :
    Cardinality({l \in Loaders : loaders[l].ar = "fetchRates" /\ s \in loaders[l].syms}) <= 1

\* C6: no outbound rate request is sent for a symbol whose held quote is
\* younger than the ttl.
C6_NoFetchWhileFresh ==
  [][\A l \in Loaders :
       (loaders[l].ar # "fetchRates" /\ loaders'[l].ar = "fetchRates")
         => \A s \in loaders'[l].syms : ~(s \in DOMAIN ratesKZT /\ ratesAge < TTL)]_vars

\* C7: after a failed rate request the screen holds no rate of age 5 x ttl or more.
C7_NoOverAgedRateKept ==
  [][\A l \in Loaders :
       (loaders[l].ar = "gotRates" /\ ~loaders[l].res.ok /\ loaders'[l].ar = "idle")
         => (ratesKZT' = NoRates \/ ratesAge' < StaleFactor * TTL)]_vars

\* C8: a batch answer that prices some of the requested symbols yields the
\* rates of those symbols.
C8_PartialBatchKept ==
  [][\A l \in Loaders :
       (loaders[l].ar = "gotRates" /\ loaders[l].res.ok /\ loaders'[l].ar = "idle")
         => \A s \in DOMAIN loaders[l].res.data :
              s \in DOMAIN ratesKZT' /\ ratesKZT'[s] = loaders[l].res.data[s]]_vars

\* C9: a conversion the screen started with no rate for its symbol is over at
\* once: no request is in flight and neither leg was committed.
C9_NoRateNoRequest ==
  (conv.caller = "screen" /\ conv.rate = 0)
    => (conv.pc = "idle" /\ ~DebitCommitted /\ ~CreditCommitted)

\* C9 witness: the form was submitted while no rate was held.
C9_RateMissing ==
  /\ conv.caller = "screen" /\ conv.rate = 0
  /\ conversionError = "Rate not available" /\ ~isConverting

\* C10: a convertCryptoToKZT call with amountCrypto <= 0 is over at once: no
\* request is in flight and neither leg was committed.
C10_NonPositiveAmountRejected ==
  (conv.caller # "none" /\ conv.params.amountCrypto <= 0)
    => (conv.pc = "idle" /\ ~DebitCommitted /\ ~CreditCommitted)

\* C10 witness: the call was made with a non-positive amount and threw.
C10_AmountRejected ==
  /\ conv.caller = "api" /\ conv.params.amountCrypto <= 0
  /\ conv.pc = "idle" /\ conv.error = "Amount must be positive"

\* The withdrawal leg of the conversion held in conv has failed: an error is
\* recorded and no withdrawal was committed, though the request was sent.
WithdrawalFailed ==
  /\ conv.error # Null /\ ~DebitCommitted
  /\ conv.rate # 0 /\ conv.params.amountCrypto > 0

\* The deposit request of the conversion held in conv was sent.
DepositAttempted == conv.pc \in {"dReq", "dOk", "dErr", "reload"} \/ CreditCommitted

\* C11: when the withdrawal leg of a conversion failed, the deposit leg is
\* not attempted and no deposit is committed, and once the call is over the
\* screen that made it shows the error.
C11_FailedWithdrawalNoDeposit ==
  WithdrawalFailed
    => /\ conv.pc \in {"wErr", "idle"}
       /\ ~DepositAttempted
       /\ (conv.pc = "idle" /\ conv.caller = "screen") => conversionError = conv.error

\* C11 witness: the withdrawal was refused for insufficient funds and the
\* error left the call.
C11_InsufficientCrypto ==
  /\ WithdrawalFailed /\ conv.pc = "idle" /\ conv.caller = "screen"
  /\ conv.error = "Insufficient funds"
  /\ conversionError = "Insufficient funds"

\* C12: the deposit request of a conversion is sent only after its withdrawal
\* was committed, and a committed deposit follows the withdrawal in the log.
C12_DebitBeforeCredit ==
  DepositAttempted
    => /\ DebitCommitted
       /\ CreditCommitted => conv.wTx < conv.dTx

\* C12 witness: the deposit request is in flight.
C12_DepositInFlight == conv.pc = "dReq" /\ DebitCommitted

\* C13: the deposit of a successful conversion of q at rate r is q x r to the
\* nearest tiyn (off by at most half a tiyn) on the KZT account, and the
\* withdrawal is exactly q on the source account.
C13_CreditedAmountIsProduct ==
  CreditCommitted
    => LET q == conv.params.amountCrypto
           w == txlog[conv.wTx]
           d == txlog[conv.dTx]
           diff == d.amount * 1000 - q * conv.rate
       IN /\ w.transaction_type = "withdrawal" /\ w.amount = q
          /\ w.account_id = conv.params.fromAccountId
          /\ d.transaction_type = "deposit" /\ d.currency = KZT
          /\ d.account_id = conv.params.toKZTAccountId
          /\ -500 <= diff /\ diff <= 500

\* C13 witness: a conversion whose product is not a whole number of tiyn
\* was credited.
C13_RoundedCredit ==
  /\ CreditCommitted
  /\ (conv.params.amountCrypto * conv.rate) % 1000 \notin {0, 500}

\* C14: the two transactions of a conversion carry the same linking identifier.
C14_LegsShareLink ==
  (DebitCommitted /\ CreditCommitted)
    => /\ txlog[conv.wTx].link # 0
       /\ txlog[conv.wTx].link = txlog[conv.dTx].link

\* The sum of the amounts of the transactions of a type on an account among
\* the first n entries of the log.
RECURSIVE Total(_, _, _)
Total(type, id, n) ==
  IF n = 0 THEN 0
  ELSE Total(type, id, n - 1)
       + (IF txlog[n].transaction_type = type /\ txlog[n].account_id = id
            THEN txlog[n].amount ELSE 0)

\* C15: the balance of every account is the sum of its committed deposits
\* minus the sum of its committed withdrawals, and is never negative.
C15_BalanceIsLedgerSum ==
  \A i \in AccountIds :
    /\ accounts[i].balance
         = Total("deposit", i, Len(txlog)) - Total("withdrawal", i, Len(txlog))
    /\ accounts[i].balance >= 0

\* C15 witness: an account has had withdrawals and deposits beyond its
\* opening deposit.
C15_DepositsAndWithdrawals ==
  \E i \in AccountIds :
    /\ Total("withdrawal", i, Len(txlog)) > 0
    /\ Total("deposit", i, Len(txlog)) > 150000

\* A withdrawal request that reached the back end asks for more than the
\* balance of its active account in the account's currency.
Overdraw(req) ==
  /\ req.account_id \in AccountIds
  /\ accounts[req.account_id].status = "active"
  /\ accounts[req.account_id].currency = req.currency
  /\ req.amount > accounts[req.account_id].balance

\* C16: the back end answers a withdrawal of more than the current balance
\* with "Insufficient funds"; the accounts and the log stay as they were.
C16_OverdrawRefused ==
  [][/\ \A w \in Wallets :
          (/\ txn[w].pc = "req" /\ txn[w].input.type = "withdrawal"
           /\ txn'[w].pc # "req" /\ txn'[w].error # "Network request failed"
           /\ Overdraw(txn[w].req))
            => (/\ txn'[w].pc = "err" /\ txn'[w].error = "Insufficient funds"
                /\ UNCHANGED serverVars)
     /\ (peer.pc = "req" /\ peer'.pc # "req" /\ Overdraw(peer.req))
          => (/\ peer'.pc = "err" /\ peer'.error = "Insufficient funds"
              /\ UNCHANGED serverVars)]_vars

\* C16 witness: with a balance of 1500.00 a withdrawal of 2000.00 was refused.
C16_Withdraw2000Of1500 ==
  \E w \in Wallets :
    /\ txn[w].pc = "err" /\ txn[w].error = "Insufficient funds"
    /\ txn[w].input.type = "withdrawal" /\ txn[w].req.amount = 200000
    /\ accounts[txn[w].req.account_id].balance = 150000

\* What the transactions linked by an id have added to an account, among the
\* first n entries of the log.
RECURSIVE LinkNet(_, _, _)
LinkNet(id, link, n) ==
  IF n = 0 THEN 0
  ELSE LinkNet(id, link, n - 1)
       + (IF txlog[n].link = link /\ txlog[n].account_id = id
            THEN (IF txlog[n].transaction_type = "deposit" THEN 1 ELSE -1) * txlog[n].amount
            ELSE 0)

\* C17: when a transfer reports "Transfer failed", its debit is followed in the
\* log by a reversal of the same amount to the source under the same link id,
\* the destination got nothing, and the net effect on the source is zero.
C17_FailedTransferReversed ==
  \A w \in Wallets :
    txn[w].error = "Transfer failed"
      => LET req == txn[w].req
             d == txn[w].tx
         IN /\ txn[w].pc = "err"
            /\ txlog[d].transaction_type = "withdrawal" /\ txlog[d].account_id = req.account_id
            /\ \E j \in (d + 1)..Len(txlog) :
                 /\ txlog[j].transaction_type = "deposit" /\ txlog[j].link = txlog[d].link
                 /\ txlog[j].account_id = req.account_id /\ txlog[j].amount = req.amount
            /\ LinkNet(req.account_id, txlog[d].link, Len(txlog)) = 0
            /\ req.to_account_id # req.account_id
                 => LinkNet(req.to_account_id, txlog[d].link, Len(txlog)) = 0

\* C17 witness: the destination was closed after the debit and the transfer
\* reported its failure.
C17_DestinationClosedMidFlight ==
  \E w \in Wallets :
    /\ txn[w].error = "Transfer failed"
    /\ accounts[txn[w].req.to_account_id].status = "closed"

\* C18: every withdrawal that is committed was checked against the balance
\* it is taken from: the balance held the amount in the state the commit
\* started from, and is lowered by exactly the amount.
C18_WithdrawalsSerialized ==
  [][(Len(txlog') = Len(txlog) + 1 /\ txlog'[Len(txlog')].transaction_type = "withdrawal")
       => LET t == txlog'[Len(txlog')]
          IN /\ accounts[t.account_id].balance >= t.amount
             /\ accounts'[t.account_id].balance = accounts[t.account_id].balance - t.amount]_vars

\* C18 witness: of two withdrawals of the same account answered and not
\* yet returned, each within the balance before them and together above it,
\* one was committed and the other refused.
C18_OneOfTwoRefused ==
  \E w \in Wallets :
    /\ txn[w].pc = "ok" /\ txn[w].input.type = "withdrawal"
    /\ peer.pc = "err" /\ peer.error = "Insufficient funds"
    /\ peer.req.account_id = txn[w].req.account_id
    /\ peer.req.amount <= accounts[peer.req.account_id].balance + txn[w].req.amount

\* C19: a request the wallet has in flight states the currency of the
\* account it targets.
C19_RequestCurrencyIsAccountCurrency ==
  \A w \in Wallets :
    txn[w].pc = "req" => accounts[txn[w].req.account_id].currency = txn[w].req.currency

\* The texts of the last press of Confirm are refused: the amount is not a
\* number or not positive, or the destination of a transfer is not a
\* number or not positive.
InvalidInput(in) ==
  \/ ParseFloat(in.amount).nan \/ ParseFloat(in.amount).val <= 0
  \/ in.type = "transfer"
       /\ (ParseInt(in.toAccountId).nan \/ ParseInt(in.toAccountId).val <= 0)

\* C20: after a press of Confirm with an invalid amount, or with an invalid
\* destination of a transfer, no request is in flight, nothing was committed
\* and processing is lowered.
C20_InvalidInputNoRequest ==
  \A w \in Wallets :
    (txn[w].input.type # Null /\ InvalidInput(txn[w].input))
      => /\ txn[w].pc = "idle" /\ ~txn[w].processing
         /\ txn[w].req = NoReq /\ txn[w].tx = 0

\* C20 witness: a transfer was confirmed with a valid amount and a
\* destination that is not a positive number.
C20_TransferWithoutDestination ==
  \E w \in Wallets :
    /\ txn[w].input.type = "transfer"
    /\ ~ParseFloat(txn[w].input.amount).nan /\ ParseFloat(txn[w].input.amount).val > 0
    /\ ParseInt(txn[w].input.toAccountId).nan \/ ParseInt(txn[w].input.toAccountId).val <= 0
    /\ txn[w].pc = "idle"

\* C21: the amount a conversion deposits is amountCrypto x rate rounded to two
\* decimals with a tie going to the even hundredth.
C21_DepositRoundedHalfEven ==
  CreditCommitted
    => LET x == KztAmount(conv.params.amountCrypto, conv.rate)
           f == x \div 1000
           r == x % 1000
           halfEven == IF r < 500 THEN f
                       ELSE IF r > 500 THEN f + 1
                       ELSE IF f % 2 = 0 THEN f ELSE f + 1
       IN txlog[conv.dTx].amount = halfEven

\* C22: loadData sends createAccount exactly when getUserAccounts returned no
\* account, the account created is one checking KZT account with balance 0,
\* and a load that succeeds leaves the screen with an account.
C22_CreateAccountIffNone ==
  [][\A w \in Wallets :
       /\ (wallet[w].pc = "gotAccounts" /\ wallet'[w].pc # "gotAccounts")
            => /\ (wallet'[w].pc = "createAccount") = (wallet[w].accountsData = <<>>)
               /\ wallet'[w].pc \in {"createAccount", "getTransactions", "idle"}
       /\ (wallet'[w].pc = "createAccount") => (wallet[w].pc \in {"gotAccounts", "createAccount"})
       /\ (wallet[w].pc = "createAccount" /\ wallet'[w].pc = "created")
            => /\ Len(wallet'[w].accountsData) = 1
               /\ accounts'[wallet'[w].accountsData[1]].account_type = "checking"
               /\ accounts'[wallet'[w].accountsData[1]].currency = KZT
               /\ \/ accounts' = accounts
                  \/ accounts' = Append(accounts, Account("checking", KZT, 0))
       /\ WalletTransactionsReturn(w) => wallet'[w].account # 0]_vars

\* C22 witness: one load created an account while another screen had finished
\* its load with the account it found.
C22_CreatedAndFound ==
  \E w, v \in Wallets :
    /\ wallet[w].pc = "created"
    /\ wallet[v].pc = "idle" /\ wallet[v].account # 0 /\ ~wallet[v].loading

\* C24: the kztAmount that convertCryptoToKZT returns is the amount of the
\* deposit transaction it returns.
C24_ResultIsDepositedAmount ==
  conv.pc = "dOk"
    => ConvertResult(conv).kztAmount = txlog[ConvertResult(conv).deposit].amount * 1000

\* C25: a conversion submitted through the form withdraws in the currency of
\* its source account, which is of type crypto, and deposits KZT into an
\* account whose currency is KZT.
C25_LegsInAccountCurrency ==
  (conv.caller = "screen" /\ conv.params # NoParams)
    => LET from == accounts[WithdrawalReq(conv).account_id]
           to == accounts[DepositReq(conv).account_id]
       IN /\ from.account_type = "crypto"
          /\ WithdrawalReq(conv).currency = from.currency
          /\ DepositReq(conv).currency = KZT
          /\ to.currency = KZT

\* C25 witness: both requests of a conversion submitted through the form
\* were answered.
C25_FormConversionDone == conv.caller = "screen" /\ conv.pc = "dOk"

\* C27: Confirm starts a request only when none started by handleTransaction
\* is in flight; processing is raised for as long as one is.
C27_OneRequestInFlight ==
  [][\A w \in Wallets :
       /\ ConfirmTransaction(w) => (txn[w].pc = "idle" /\ ~txn[w].processing)
       /\ (txn'[w].pc # "idle") => txn'[w].processing]_vars

\* C27 witness: a request is in flight with the modal still open.
C27_RequestInFlight ==
  \E w \in Wallets :
    txn[w].pc = "req" /\ txn[w].processing /\ txn[w].modal # Null

\* C23: an invocation of handleFaceVerify while isLoading is raised sends no
\* request and leaves the call in progress as it is; isLoading is raised for
\* as long as a call is in progress, so at most one verifyFaceID request is
\* outstanding.
C23_NoSecondVerification ==
  [][/\ (FaceVerifyInvoked /\ login.isLoading)
          => /\ login'.pc = login.pc /\ login'.handler = login.handler
             /\ login'.result = login.result /\ login'.isLoading
     /\ (login'.pc # "idle") => login'.isLoading]_vars

\* C23 witness: handleFaceVerify was invoked and skipped while the
\* verifyFaceID request of an earlier invocation was outstanding.
C23_SkippedWhileVerifying ==
  /\ login.handler = "verify" /\ login.pc = "call"
  /\ login.alert = "Verification already in progress, skipping..."

\* C28: a screen's user is set only with a stored user that has an id; a
\* screen whose loadUser found no such entry has sent the router to /login;
\* a confirmed logout removes the entry and sends the router to /login.
C28_UserOnlyWithSession ==
  /\ [](\A scr \in UserScreens :
          /\ user[scr].set => storage = "user"
          /\ (route = scr /\ user[scr].loaded) => user[scr].set)
  /\ [][HandleLogout => (storage' # "user" /\ route' = LOGIN)]_vars

\* C29: the login screen sends the router to /(tabs) only when its
\* authentication call returned successfully and the session stored has a
\* user id; an attempt that did not succeed writes no session.
C29_NavigatesWithSession ==
  [][(route = LOGIN)
       => /\ (route' = HOME) => (AuthSucceeded(login) /\ storage' = "user")
          /\ (storage' # storage) => AuthSucceeded(login)]_vars

C26_BusyFlagsLowered ==
  /\ [](/\ txn[Foreground].pc = "idle" => ~txn[Foreground].processing
        /\ conv.pc = "idle" => ~isConverting
        /\ login.pc = "idle" => ~login.isLoading)
  /\ txn[Foreground].processing ~> ~txn[Foreground].processing
  /\ isConverting ~> (~isConverting \/ ~alive)
  /\ login.isLoading ~> ~login.isLoading

\* C26 witness: a login handler has left through its catch after a failed
\* request, with isLoading lowered.
C26_LoweredAfterFailure ==
  /\ login.alert = "Request failed" /\ login.pc = "idle" /\ ~login.isLoading
====
